---- MODULE Spec2Model ----
(***************************************************************************)
(* PhotoWeave (src/src/app.py): a Streamlit script that decodes the        *)
(* uploaded files, folds stitch_images over them in upload order and       *)
(* displays / writes / offers the panorama, plus the helper                *)
(* standardize_image.                                                      *)
(*                                                                         *)
(* An image is [kind |-> "image", w, h, px] with px[r][c] a pixel, rows    *)
(* 0..h-1 and columns 0..w-1 as in the numpy arrays of the source.  A      *)
(* pixel is [src, pos, ch]: the sample at position pos of uploaded file    *)
(* src, and ch, the colour plane held by each of the three array slots     *)
(* (<<"B","G","R">> right after cv2.imdecode).  Feature detection and      *)
(* matching are the library's: their result, the number of matches, is an  *)
(* input; so is the transform cv2.findHomography returns.                  *)
(***************************************************************************)
EXTENDS Integers, Sequences, FiniteSets, TLC

\* ------------------------------------------------------------------ bounds
MaxImages == 3      \* most files in one upload
MaxW == 1           \* widest uploaded image
MaxH == 2           \* tallest uploaded image
MaxMatches == 6     \* most matches the matcher yields
MaxDim == 4         \* largest source / target dimension given to standardize_image

\* ------------------------------------------------------------------ program constants
MatchThreshold == 4     \* len(matches) > 4

Sessions == {1, 2}

VARIABLES
    pc,                 \* per session: position of the script
    uploaded_files,     \* per session: what st.file_uploader returned
    images,             \* per session: the decoded images (or None)
    stitched_image,     \* per session: the accumulator of the fold
    i,                  \* per session: the loop index of the fold
    train_photo,        \* stitch_images frame: channel-converted train image
    query_photo,        \* stitch_images frame: channel-converted query image
    matches,            \* stitch_images frame: number of matches found
    M,                  \* stitch_images frame: result of homography_stitching
    errors,             \* per session: the st.error messages shown
    shown,              \* per session: uploaded images displayed (col.image)
    displayed,          \* per session: the image given to st.image
    download,           \* per session: the bytes given to st.download_button
    disk,               \* the file "stitched_image.jpg" of the working directory
    queries,            \* per session: the index i of every stitch_images call so far
    nreturns,           \* per session: number of stitch_images calls that returned
    estimates,          \* per session: number of cv2.findHomography invocations
    warps,              \* per session: number of cv2.warpPerspective invocations
    failed,             \* per session: the index i whose stitch returned None (0: none)
    std_in,             \* standardize_image: its arguments
    std_out             \* standardize_image: its result

vars == <<pc, uploaded_files, images, stitched_image, i, train_photo, query_photo,
          matches, M, errors, shown, displayed, download, disk, queries, nreturns,
          estimates, warps, failed, std_in, std_out>>

pipeline_vars == <<pc, uploaded_files, images, stitched_image, i, train_photo,
                   query_photo, matches, M, errors, shown, displayed, download, disk,
                   queries, nreturns, estimates, warps, failed>>

\* ------------------------------------------------------------------ values
None == [kind |-> "none"]
Raised == [kind |-> "raised"]
NoFile == [kind |-> "nofile"]

BGR == <<"B", "G", "R">>
Black == [src |-> <<0, 0>>, pos |-> <<0, 0>>, ch |-> <<"0", "0", "0">>]

LoadError == "Error loading one or more images. Please check the files."
StitchError == "Error stitching images. Please ensure the images overlap sufficiently."

Max(a, b) == IF a >= b THEN a ELSE b

\* an uploaded file: its identity, whether its bytes decode, and the raster they hold
File(id, ok, w, h) == [id |-> id, ok |-> ok, w |-> w, h |-> h]

imdecode_Placeholder(f) ==
    [kind |-> "image", w |-> f.w, h |-> f.h,
     px |-> [r \in 0..(f.h - 1) |-> [c \in 0..(f.w - 1) |->
               [src |-> f.id, pos |-> <<r, c>>, ch |-> <<"B", "G", "R">>]]]]

\* cv2.imdecode(np.frombuffer(file.read()), IMREAD_COLOR): None for bytes that do
\* not decode, else the raster in B,G,R slot order
imdecode(f) ==
    IF ~f.ok THEN None
    ELSE [kind |-> "image", w |-> f.w, h |-> f.h,
          px |-> [r \in 0..(f.h - 1) |-> [c \in 0..(f.w - 1) |->
                    [src |-> f.id, pos |-> <<r, c>>, ch |-> BGR]]]]

\* cv2.cvtColor(image, COLOR_BGR2RGB) (the same permutation as COLOR_RGB2BGR):
\* slots 0 and 2 of every pixel are exchanged
SwapPixel(p) == [p EXCEPT !.ch = <<p.ch[3], p.ch[2], p.ch[1]>>]

cvtColor(image) ==
    [image EXCEPT !.px = [r \in 0..(image.h - 1) |-> [c \in 0..(image.w - 1) |->
                            SwapPixel(image.px[r][c])]]]

\* the transforms cv2.findHomography may return for a pair: None when no
\* transform can be estimated, else (here) a translation by dx columns: 0 lays the
\* train image over the query, the query's width lays it to the right of it
Homographies(query) == {None} \cup {[kind |-> "H", dx |-> d, dy |-> 0] : d \in {0, query.w}}

\* cv2.warpPerspective(src, H, (width, height)): a width x height canvas; each
\* pixel is the source sample H maps there, or the zero border value
warpPerspective(src, H, width, height) ==
    [kind |-> "image", w |-> width, h |-> height,
     px |-> [r \in 0..(height - 1) |-> [c \in 0..(width - 1) |->
               IF (r - H.dy) \in 0..(src.h - 1) /\ (c - H.dx) \in 0..(src.w - 1)
               THEN src.px[r - H.dy][c - H.dx]
               ELSE Black]]]

Paste_UnderTrain(result, query) ==
    [result EXCEPT !.px = [r \in 0..(result.h - 1) |-> [c \in 0..(result.w - 1) |->
                             IF r < query.h /\ c < query.w /\ result.px[r][c] = Black
                             THEN query.px[r][c]
                             ELSE result.px[r][c]]]]

\* result[0:query.shape[0], 0:query.shape[1]] = query
Paste(result, query) ==
    [result EXCEPT !.px = [r \in 0..(result.h - 1) |-> [c \in 0..(result.w - 1) |->
                             IF r < query.h /\ c < query.w
                             THEN query.px[r][c]
                             ELSE result.px[r][c]]]]

CanvasHeight_QueryOnly(query, train) == query.h

\* the canvas size stitch_images computes
CanvasWidth(query, train) == query.w + train.w
CanvasHeight(query, train) == Max(query.h, train.h)

\* lines 118-123: warp the train photo onto the canvas, paste the query photo
Composite(train, query, H) ==
    Paste(warpPerspective(train, H, CanvasWidth(query, train), CanvasHeight(query, train)),
          query)

\* imageio.imwrite(result_path, image): the JPEG encoding of the array
imwrite(image) == [kind |-> "jpeg", of |-> image]

\* ------------------------------------------------------------------ uploads
FileChoices(s, k) ==
    {File(<<s, k>>, FALSE, 1, 1)}
        \cup {File(<<s, k>>, TRUE, w, h) : w \in 1..MaxW, h \in 1..MaxH}

RECURSIVE UploadsOfLen(_, _)
UploadsOfLen(s, n) ==
    IF n = 0 THEN {<<>>}
    ELSE {Append(fs, f) : fs \in UploadsOfLen(s, n - 1), f \in FileChoices(s, n - 1)}

Uploads(s) == UNION {UploadsOfLen(s, n) : n \in 0..MaxImages}

\* ------------------------------------------------------------------ the script
PipelineInit ==
    /\ pc = [s \in Sessions |-> "idle"]
    /\ uploaded_files = [s \in Sessions |-> <<>>]
    /\ images = [s \in Sessions |-> <<>>]
    /\ stitched_image = [s \in Sessions |-> None]
    /\ i = [s \in Sessions |-> 0]
    /\ train_photo = [s \in Sessions |-> None]
    /\ query_photo = [s \in Sessions |-> None]
    /\ matches = [s \in Sessions |-> 0]
    /\ M = [s \in Sessions |-> None]
    /\ errors = [s \in Sessions |-> <<>>]
    /\ shown = [s \in Sessions |-> FALSE]
    /\ displayed = [s \in Sessions |-> None]
    /\ download = [s \in Sessions |-> None]
    /\ disk = NoFile
    /\ queries = [s \in Sessions |-> <<>>]
    /\ nreturns = [s \in Sessions |-> 0]
    /\ estimates = [s \in Sessions |-> 0]
    /\ warps = [s \in Sessions |-> 0]
    /\ failed = [s \in Sessions |-> 0]

Init ==
    /\ PipelineInit
    /\ std_in = None
    /\ std_out = None

\* images[k] of the source (0-based)
Img(s, k) == images[s][k + 1]

\* line 137: any(image is None for image in images)
AnyNone(decoded) == \E k \in 1..Len(decoded) : decoded[k] = None

\* line 150: range(1, len(images)) starts the fold at images[1]
LoopStart == 1

NextIndex_Skip(k) == k + 2

\* line 150: the next value of range(1, len(images))
NextIndex(k) == k + 1

FoldStep_KeepPartial(accumulator, returned) ==
    IF returned = None THEN accumulator ELSE returned

\* line 151: stitched_image = stitch_images(stitched_image, images[i]): the
\* accumulator is replaced by what the call returned, None included
FoldStep(accumulator, returned) == returned

\* st.file_uploader returns the files of a session's upload and the script runs
Upload(s) ==
    /\ pc[s] = "idle"
    /\ \E files \in Uploads(s) : uploaded_files' = [uploaded_files EXCEPT ![s] = files]
    /\ pc' = [pc EXCEPT ![s] = "run"]
    /\ UNCHANGED <<images, stitched_image, i, train_photo, query_photo, matches, M,
                   errors, shown, displayed, download, disk, queries, nreturns,
                   estimates, warps, failed, std_in, std_out>>

\* lines 132-149: decode every file; one undecodable file is an error and the end
\* of the run; else the uploads are displayed and the fold starts at images[0]
ReadImages(s) ==
    /\ pc[s] = "run"
    /\ LET decoded == [k \in 1..Len(uploaded_files[s]) |-> imdecode(uploaded_files[s][k])]
       IN  IF Len(uploaded_files[s]) = 0
           THEN /\ pc' = [pc EXCEPT ![s] = "done"]
                /\ UNCHANGED <<images, errors, shown, stitched_image, i>>
           ELSE /\ images' = [images EXCEPT ![s] = decoded]
                /\ IF AnyNone(decoded)
                   THEN /\ errors' = [errors EXCEPT ![s] = Append(@, LoadError)]
                        /\ pc' = [pc EXCEPT ![s] = "done"]
                        /\ UNCHANGED <<shown, stitched_image, i>>
                   ELSE /\ shown' = [shown EXCEPT ![s] = TRUE]
                        /\ stitched_image' = [stitched_image EXCEPT ![s] = decoded[1]]
                        /\ i' = [i EXCEPT ![s] = LoopStart]
                        /\ pc' = [pc EXCEPT ![s] = "fold"]
                        /\ UNCHANGED errors
    /\ UNCHANGED <<uploaded_files, train_photo, query_photo, matches, M, displayed,
                   download, disk, queries, nreturns, estimates, warps, failed, std_in, std_out>>

\* lines 150-151 and 54-96: the loop calls stitch_images(stitched_image, images[i]);
\* both arguments are channel-converted and the matcher yields its matches
StitchCall(s) ==
    /\ pc[s] = "fold"
    /\ i[s] < Len(images[s])
    /\ train_photo' = [train_photo EXCEPT ![s] = cvtColor(stitched_image[s])]
    /\ query_photo' = [query_photo EXCEPT ![s] = cvtColor(Img(s, i[s]))]
    /\ \E n \in 0..MaxMatches : matches' = [matches EXCEPT ![s] = n]
    /\ queries' = [queries EXCEPT ![s] = Append(@, i[s])]
    /\ pc' = [pc EXCEPT ![s] = "matched"]
    /\ UNCHANGED <<uploaded_files, images, stitched_image, i, M, errors, shown,
                   displayed, download, disk, nreturns, estimates, warps, failed, std_in, std_out>>

\* line 150: range(1, len(images)) is exhausted
LoopExit(s) ==
    /\ pc[s] = "fold"
    /\ i[s] >= Len(images[s])
    /\ pc' = [pc EXCEPT ![s] = "output"]
    /\ UNCHANGED <<uploaded_files, images, stitched_image, i, train_photo, query_photo,
                   matches, M, errors, shown, displayed, download, disk, queries,
                   nreturns, estimates, warps, failed, std_in, std_out>>

EnoughMatches_AtLeast4(n) == n >= MatchThreshold

\* the guard of homography_stitching (line 103)
EnoughMatches(n) == n > MatchThreshold

\* lines 100-113 (and 151-154 for the None return): with enough matches
\* cv2.findHomography is invoked and M = (matches, H, status); else M is None,
\* stitch_images returns None, the loop shows the error and breaks
HomographyStitching(s) ==
    /\ pc[s] = "matched"
    /\ IF EnoughMatches(matches[s])
       THEN /\ \E H \in Homographies(query_photo[s]) : M' = [M EXCEPT ![s] = [kind |-> "M", H |-> H]]
            /\ estimates' = [estimates EXCEPT ![s] = @ + 1]
            /\ pc' = [pc EXCEPT ![s] = "warp"]
            /\ UNCHANGED <<stitched_image, errors, nreturns, train_photo, query_photo,
                           matches, failed>>
       ELSE /\ stitched_image' = [stitched_image EXCEPT ![s] = FoldStep(@, None)]
            /\ failed' = [failed EXCEPT ![s] = i[s]]
            /\ errors' = [errors EXCEPT ![s] = Append(@, StitchError)]
            /\ nreturns' = [nreturns EXCEPT ![s] = @ + 1]
            /\ train_photo' = [train_photo EXCEPT ![s] = None]
            /\ query_photo' = [query_photo EXCEPT ![s] = None]
            /\ matches' = [matches EXCEPT ![s] = 0]
            /\ pc' = [pc EXCEPT ![s] = "output"]
            /\ UNCHANGED <<M, estimates>>
    /\ UNCHANGED <<uploaded_files, images, i, shown, displayed, download, disk, queries,
                   warps, std_in, std_out>>

\* lines 112-123 (and 150-152 for the return): M is a tuple, so the M is None test
\* passes whatever H is; cv2.warpPerspective is invoked with H and raises when H
\* is None, which ends the script; else the composite is returned, becomes the
\* accumulator and the loop goes on
WarpAndPaste(s) ==
    /\ pc[s] = "warp"
    /\ warps' = [warps EXCEPT ![s] = @ + 1]
    /\ IF M[s].H = None
       THEN /\ pc' = [pc EXCEPT ![s] = "raised"]
            /\ UNCHANGED <<stitched_image, i, nreturns, train_photo, query_photo, matches, M>>
       ELSE /\ stitched_image' = [stitched_image EXCEPT ![s] =
                                    FoldStep(@, Composite(train_photo[s], query_photo[s], M[s].H))]
            /\ i' = [i EXCEPT ![s] = NextIndex(@)]
            /\ nreturns' = [nreturns EXCEPT ![s] = @ + 1]
            /\ train_photo' = [train_photo EXCEPT ![s] = None]
            /\ query_photo' = [query_photo EXCEPT ![s] = None]
            /\ matches' = [matches EXCEPT ![s] = 0]
            /\ M' = [M EXCEPT ![s] = None]
            /\ pc' = [pc EXCEPT ![s] = "fold"]
    /\ UNCHANGED <<uploaded_files, images, errors, shown, displayed, download, disk,
                   queries, estimates, failed, std_in, std_out>>

\* lines 156-159: a panorama is converted once more and given to st.image
Display(s) ==
    /\ pc[s] = "output"
    /\ IF stitched_image[s] # None
       THEN /\ displayed' = [displayed EXCEPT ![s] = cvtColor(stitched_image[s])]
            /\ pc' = [pc EXCEPT ![s] = "write"]
       ELSE /\ pc' = [pc EXCEPT ![s] = "done"]
            /\ UNCHANGED displayed
    /\ UNCHANGED <<uploaded_files, images, stitched_image, i, train_photo, query_photo,
                   matches, M, errors, shown, download, disk, queries, nreturns,
                   estimates, warps, failed, std_in, std_out>>

\* lines 162-163: imageio.imwrite("stitched_image.jpg", stitched_image)
WriteFile(s) ==
    /\ pc[s] = "write"
    /\ disk' = imwrite(stitched_image[s])
    /\ pc' = [pc EXCEPT ![s] = "open"]
    /\ UNCHANGED <<uploaded_files, images, stitched_image, i, train_photo, query_photo,
                   matches, M, errors, shown, displayed, download, queries, nreturns,
                   estimates, warps, failed, std_in, std_out>>

\* lines 164-170: the file is opened and its content given to st.download_button
Download(s) ==
    /\ pc[s] = "open"
    /\ download' = [download EXCEPT ![s] = disk]
    /\ pc' = [pc EXCEPT ![s] = "done"]
    /\ UNCHANGED <<uploaded_files, images, stitched_image, i, train_photo, query_photo,
                   matches, M, errors, shown, displayed, disk, queries, nreturns,
                   estimates, warps, failed, std_in, std_out>>

\* one run of the script in one browser session
Next ==
    \/ Upload(1)
    \/ ReadImages(1)
    \/ StitchCall(1)
    \/ LoopExit(1)
    \/ HomographyStitching(1)
    \/ WarpAndPaste(1)
    \/ Display(1)
    \/ WriteFile(1)
    \/ Download(1)

Spec == Init /\ [][Next]_vars

\* ------------------------------------------------------------------ browser sessions
\* Streamlit runs the script of every browser session in one process and one
\* working directory: the sessions interleave at every step of their scripts
SessionUploads(s) == {<<File(<<s, 0>>, TRUE, 1, 1), File(<<s, 1>>, TRUE, 1, 1)>>}

SessionUpload(s) ==
    /\ pc[s] = "idle"
    /\ \E files \in SessionUploads(s) : uploaded_files' = [uploaded_files EXCEPT ![s] = files]
    /\ pc' = [pc EXCEPT ![s] = "run"]
    /\ UNCHANGED <<images, stitched_image, i, train_photo, query_photo, matches, M,
                   errors, shown, displayed, download, disk, queries, nreturns,
                   estimates, warps, failed, std_in, std_out>>

NextSessions ==
    \E s \in Sessions :
        \/ SessionUpload(s)
        \/ ReadImages(s)
        \/ StitchCall(s)
        \/ LoopExit(s)
        \/ HomographyStitching(s)
        \/ WarpAndPaste(s)
        \/ Display(s)
        \/ WriteFile(s)
        \/ Download(s)

SpecSessions == Init /\ [][NextSessions]_vars

\* ------------------------------------------------------------------ standardize_image
\* line 33: scale_factor = min(target_width / w, target_height / h), kept as the
\* fraction num / den (the quotient target_width / w is the smaller one exactly
\* when target_width * h <= target_height * w)
ScaleFactor(w, h, target_width, target_height) ==
    IF target_width * h <= target_height * w
    THEN [num |-> target_width, den |-> w]
    ELSE [num |-> target_height, den |-> h]

\* lines 34-35: int(x * scale_factor); for the dimensions of the model the
\* floating-point product truncates to this same integer
Scaled(x, scale) == (x * scale.num) \div scale.den

\* line 38: cv2.resize(image, (new_width, new_height), INTER_AREA) raises on an
\* empty destination size; else every destination pixel is resampled from the
\* source (here: the source sample its position falls in)
resize(image, new_width, new_height) ==
    IF new_width <= 0 \/ new_height <= 0 THEN Raised
    ELSE [kind |-> "image", w |-> new_width, h |-> new_height,
          px |-> [r \in 0..(new_height - 1) |-> [c \in 0..(new_width - 1) |->
                    image.px[(r * image.h) \div new_height][(c * image.w) \div new_width]]]]

\* lines 44-45
Offset(target, new) == (target - new) \div 2

\* lines 16-50
standardize_image(image, target_width, target_height) ==
    LET scale_factor == ScaleFactor(image.w, image.h, target_width, target_height)
        new_width == Scaled(image.w, scale_factor)
        new_height == Scaled(image.h, scale_factor)
        resized_image == resize(image, new_width, new_height)
        y_offset == Offset(target_height, new_height)
        x_offset == Offset(target_width, new_width)
    IN  IF resized_image = Raised THEN Raised
        ELSE [kind |-> "image", w |-> target_width, h |-> target_height,
              px |-> [r \in 0..(target_height - 1) |-> [c \in 0..(target_width - 1) |->
                        IF /\ r >= y_offset /\ r < y_offset + new_height
                           /\ c >= x_offset /\ c < x_offset + new_width
                        THEN resized_image.px[r - y_offset][c - x_offset]
                        ELSE Black]]]

StdInputs ==
    {[image |-> imdecode(File(<<1, 0>>, TRUE, w, h)), target_width |-> tw, target_height |-> th] :
        w \in 1..MaxDim, h \in 1..MaxDim, tw \in 1..MaxDim, th \in 1..MaxDim}

InitStd ==
    /\ PipelineInit
    /\ std_in \in StdInputs
    /\ std_out = None

Standardize ==
    /\ std_out = None
    /\ std_out' = standardize_image(std_in.image, std_in.target_width, std_in.target_height)
    /\ UNCHANGED <<std_in, pipeline_vars>>

NextStd == Standardize

SpecStd == InitStd /\ [][NextStd]_vars

\* ------------------------------------------------------------------ properties
Decoded(s) == Len(images[s]) > 0 /\ ~AnyNone(images[s])
InFrame(s) == pc[s] \in {"matched", "warp"}
NoOutput(s) == displayed[s] = None /\ download[s] = None /\ disk = NoFile

\* C1: when stitch_images leaves the matching step with fewer than 5 matches it
\* returns None to the loop without invoking cv2.findHomography and without
\* raising; with 5 or more matches it invokes cv2.findHomography (once). So the
\* estimator is never invoked with 4 or fewer matches.
C1_MatchThreshold ==
    [][\A s \in Sessions :
         (pc[s] = "matched" /\ pc'[s] # "matched") =>
            IF matches[s] < 5
            THEN /\ stitched_image'[s] = None
                 /\ nreturns'[s] = nreturns[s] + 1
                 /\ estimates'[s] = estimates[s]
                 /\ warps'[s] = warps[s]
                 /\ pc'[s] = "output"
            ELSE /\ estimates'[s] = estimates[s] + 1
                 /\ pc'[s] = "warp"
                 /\ M'[s] # None]_vars

\* the first pair had enough matches and was estimated, the second had too few
\* and returned None
C1_Witness ==
    /\ pc[1] = "output"
    /\ stitched_image[1] = None
    /\ failed[1] = 2
    /\ estimates[1] = 1
    /\ nreturns[1] = 2

\* C2: once the stitch of pair i has returned the failure signal, the calls made
\* are exactly those of pairs 1..i (none for a later pair), exactly one error
\* message is shown, and no panorama is displayed, written or offered: the
\* accumulator of the pairs before i is gone. After an exception in a stitch
\* nothing is displayed, written or offered either.
C2_FailureAbortsFold ==
    \A s \in Sessions :
        /\ failed[s] # 0 =>
              /\ pc[s] \in {"output", "done"}
              /\ queries[s] = [k \in 1..failed[s] |-> k]
              /\ nreturns[s] = failed[s]
              /\ errors[s] = <<StitchError>>
              /\ stitched_image[s] = None
              /\ NoOutput(s)
        /\ pc[s] = "raised" => NoOutput(s)

\* three images, pair 1 stitched, pair 2 failed, the run is over
C2_Witness ==
    /\ pc[1] = "done"
    /\ Len(images[1]) = 3
    /\ failed[1] = 2
    /\ warps[1] = 1

\* C3: if some uploaded file does not decode, then once the script has read the
\* files the run is over with the load error shown, stitch_images was never
\* called, and nothing is displayed (not even the uploads), written or offered.
C3_DecodeErrorHalts ==
    \A s \in Sessions :
        ((\E k \in 1..Len(uploaded_files[s]) : ~uploaded_files[s][k].ok) /\ pc[s] # "run") =>
            /\ pc[s] = "done"
            /\ errors[s] = <<LoadError>>
            /\ queries[s] = <<>>
            /\ estimates[s] = 0
            /\ ~shown[s]
            /\ stitched_image[s] = None
            /\ NoOutput(s)

\* the malformed file is the last of three uploads
C3_Witness ==
    /\ pc[1] = "done"
    /\ Len(uploaded_files[1]) = 3
    /\ uploaded_files[1][1].ok /\ uploaded_files[1][2].ok /\ ~uploaded_files[1][3].ok
    /\ errors[1] = <<LoadError>>

\* C4: when cv2.findHomography returned no transform for a pair with 5 or more
\* matches, the run does not invoke cv2.warpPerspective with the missing
\* transform and does not end in an exception.
C4_EstimationFailureIsStitchError ==
    \A s \in Sessions :
        (M[s] # None /\ M[s].H = None) =>
            /\ pc[s] # "raised"
            /\ warps[s] < estimates[s]

\* the pixels of the train image after the channel conversion, and the empty canvas
TrainOrEmpty(train) ==
    {Black} \cup {SwapPixel(train.px[r][c]) : r \in 0..(train.h - 1), c \in 0..(train.w - 1)}

RECURSIVE SumW(_, _)
SumW(s, n) == IF n = 0 THEN 0 ELSE SumW(s, n - 1) + Img(s, n - 1).w

RECURSIVE MaxHt(_, _)
MaxHt(s, n) == IF n = 0 THEN 0 ELSE Max(MaxHt(s, n - 1), Img(s, n - 1).h)

\* C6: while images 0..i-1 are folded into the accumulator, its width is the sum
\* of their widths and its height the maximum of their heights, its array has
\* exactly that shape, and it is at least as wide and as high as each of them (so
\* every paste fitted the canvas).
C6_CanvasSize ==
    \A s \in Sessions :
        (Decoded(s) /\ stitched_image[s] # None) =>
            LET acc == stitched_image[s]
            IN  /\ acc.w = SumW(s, i[s])
                /\ acc.h = MaxHt(s, i[s])
                /\ DOMAIN acc.px = 0..(acc.h - 1)
                /\ \A r \in DOMAIN acc.px : DOMAIN acc.px[r] = 0..(acc.w - 1)
                /\ \A k \in 0..(i[s] - 1) : acc.w >= Img(s, k).w /\ acc.h >= Img(s, k).h

\* three images of heights 1, 2, 1 and width 1 each are folded
C6_Witness ==
    /\ pc[1] = "done"
    /\ download[1] # None
    /\ Len(images[1]) = 3
    /\ Img(1, 0).h = 1 /\ Img(1, 1).h = 2 /\ Img(1, 2).h = 1
    /\ stitched_image[1].w = 3
    /\ stitched_image[1].h = 2

\* C9: the k-th call of stitch_images has images[k] as query; during it the
\* train image is the accumulator (images[0] at the first call, else what the
\* previous call returned) and exactly k-1 calls have returned; between calls
\* every call made has returned; a run that offers a download has made the
\* calls 1..n-1, once each.
C9_UploadOrder ==
    \A s \in Sessions :
        /\ queries[s] = [k \in 1..Len(queries[s]) |-> k]
        /\ nreturns[s] \in {Len(queries[s]), Len(queries[s]) - 1}
        /\ InFrame(s) =>
              /\ Len(queries[s]) = i[s]
              /\ nreturns[s] = i[s] - 1
              /\ train_photo[s] = cvtColor(stitched_image[s])
              /\ query_photo[s] = cvtColor(Img(s, i[s]))
              /\ i[s] = 1 => stitched_image[s] = Img(s, 0)
        /\ pc[s] = "fold" => nreturns[s] = Len(queries[s]) /\ i[s] = Len(queries[s]) + 1
        /\ download[s] # None => Len(queries[s]) = Len(images[s]) - 1 /\ nreturns[s] = Len(queries[s])

\* a run over three images that succeeded
C9_Witness ==
    /\ pc[1] = "done"
    /\ download[1] # None
    /\ queries[1] = <<1, 2>>

Pixels(image) == {image.px[r][c] : r \in 0..(image.h - 1), c \in 0..(image.w - 1)}

\* C10: in the displayed panorama the pixels of all uploaded images hold their
\* colour planes in one and the same slot order.
C10_OneChannelOrder ==
    \A s \in Sessions :
        displayed[s] # None =>
            \A p, q \in Pixels(displayed[s]) :
                (p.src # Black.src /\ q.src # Black.src) => p.ch = q.ch

\* C8: the bytes a session offers for download are the encoding of the panorama
\* this session computed.
C8_OwnDownload ==
    \A s \in Sessions :
        download[s] # None => download[s] = imwrite(stitched_image[s])

\* C7: standardize_image returns an image of exactly the target size; the scaled
\* source is at least 1x1 and at most the target, it is centred (opposite
\* margins differ by at most 1) and every pixel outside it is black.
C7_StandardizeExact ==
    std_out # None =>
        LET tw == std_in.target_width
            th == std_in.target_height
            scale == ScaleFactor(std_in.image.w, std_in.image.h, tw, th)
            nw == Scaled(std_in.image.w, scale)
            nh == Scaled(std_in.image.h, scale)
            x == Offset(tw, nw)
            y == Offset(th, nh)
        IN  /\ std_out.kind = "image"
            /\ std_out.w = tw /\ std_out.h = th
            /\ DOMAIN std_out.px = 0..(th - 1)
            /\ \A r \in 0..(th - 1) : DOMAIN std_out.px[r] = 0..(tw - 1)
            /\ nw \in 1..tw /\ nh \in 1..th
            /\ (tw - nw - x) - x \in {0, 1}
            /\ (th - nh - y) - y \in {0, 1}
            /\ \A r \in 0..(th - 1) : \A c \in 0..(tw - 1) :
                   (std_out.px[r][c] = Black) <=>
                       ~(r >= y /\ r < y + nh /\ c >= x /\ c < x + nw)

====
